---- MODULE Spec2Model ----
(***************************************************************************)
(* Model of src/main.go: a one-shot client that builds a fixed chat        *)
(* request, calls InvokeModel once, decodes the JSON reply and prints the  *)
(* text of the first content block, or classifies the call's error.        *)
(*                                                                         *)
(* Strings that are searched or embedded (error messages, the model id,    *)
(* response texts) are sequences of one-character strings, so that         *)
(* strings.Contains and the Printf substitutions are computed.  The fixed  *)
(* Japanese literals of the format strings are not representable in the    *)
(* tools' string syntax; each is one opaque symbol of the sequence.        *)
(***************************************************************************)
EXTENDS Integers, Sequences, FiniteSets

(* ------------------------------ bounds --------------------------------- *)
\* longest response content list the remote service returns
MaxContent == 2
\* number of fragments an error message of the remote call is made of
MaxFragments == 3

(* --------------------------- string literals --------------------------- *)
\* main.go:118  "no such host"
NoSuchHost == <<"n", "o", " ", "s", "u", "c", "h", " ", "h", "o", "s", "t">>
\* main.go:120  "Could not resolve the foundation model"
CouldNotResolve == <<"C", "o", "u", "l", "d", " ", "n", "o", "t", " ", "r", "e", "s", "o", "l", "v", "e", " ", "t", "h", "e", " ", "f", "o", "u", "n", "d", "a", "t", "i", "o", "n", " ", "m", "o", "d", "e", "l">>
\* main.go:65  modelID := "anthropic.claude-3-5-sonnet-20240620-v1:0"
modelID == <<"a", "n", "t", "h", "r", "o", "p", "i", "c", ".", "c", "l", "a", "u", "d", "e", "-", "3", "-", "5", "-", "s", "o", "n", "n", "e", "t", "-", "2", "0", "2", "4", "0", "6", "2", "0", "-", "v", "1", ":", "0">>
\* main.go:55  region := "us-east-1"
region == "us-east-1"
\* the line terminator written by fmt.Println and the "\n" of the formats
NL == "\n"

(* ------------------------------ helpers -------------------------------- *)
\* the concatenation of a sequence of sequences
RECURSIVE Concat(_)
Concat(ss) == IF ss = <<>> THEN <<>> ELSE Head(ss) \o Concat(Tail(ss))

\* all sequences over S of length at most n
SeqsUpTo(S, n) == UNION {[1..k -> S] : k \in 0..n}

\* strings.Contains(s, substr): substr occurs in s as a contiguous run
Contains(s, substr) ==
    \E i \in 0..(Len(s) - Len(substr)) : SubSeq(s, i + 1, i + Len(substr)) = substr

(* ------------------------------ errors --------------------------------- *)
\* a Go error value: nil, or an error whose Error() text is msg
NilErr == [isNil |-> TRUE, msg |-> <<>>]
ErrorOf(m) == [isNil |-> FALSE, msg |-> m]

\* pieces the remote call's error text is assembled from; a needle may be
\* whole in one piece or straddle two
ErrFragments ==
    { NoSuchHost,
      CouldNotResolve,
      <<"n", "o", " ", "s", "u", "c", "h", " ">>,
      <<"h", "o", "s", "t">>,
      <<"d", "i", "a", "l", " ", "t", "c", "p", ":", " ">>,
      <<"C", "o", "u", "l", "d", " ", "n", "o", "t", " ", "r", "e", "s", "o", "l", "v", "e", " ">>,
      <<"t", "h", "e", " ", "f", "o", "u", "n", "d", "a", "t", "i", "o", "n", " ", "m", "o", "d", "e", "l">> }

\* the error texts InvokeModel may return
InvokeErrMsgs == {Concat(fs) : fs \in SeqsUpTo(ErrFragments, MaxFragments)}

\* the error texts config.LoadDefaultConfig may return
ConfigErrMsgs == {<<"failed to load shared config">>, <<"invalid region">>}

\* the error text json.Marshal may return
MarshalErrMsgs == {<<"json: unsupported type">>}

(* ------------------------------ request -------------------------------- *)
\* main.go:68-83  the request struct (the two Japanese literals are symbols)
BuildRequest ==
    [ AnthropicVersion |-> "bedrock-2023-05-31",
      MaxTokens        |-> 1024,
      System           |-> "<system prompt literal>",
      Messages         |-> << [ Role    |-> "user",
                                Content |-> << [Type |-> "text",
                                                Text |-> "<user prompt literal>"] >> ] >> ]

ZeroRequest ==
    [AnthropicVersion |-> "", MaxTokens |-> 0, System |-> "", Messages |-> <<>>]

\* json.Marshal of a ClaudeTextContent / ClaudeRequestMessage / ClaudeRequest:
\* a JSON object keyed by the json tags of the struct fields
MarshalContent(c) == [type |-> c.Type, text |-> c.Text]
MarshalMessage(m) ==
    [ role    |-> m.Role,
      content |-> [i \in 1..Len(m.Content) |-> MarshalContent(m.Content[i])] ]
Marshal(r) ==
    [ anthropic_version |-> r.AnthropicVersion,
      max_tokens        |-> r.MaxTokens,
      system            |-> r.System,
      messages          |-> [i \in 1..Len(r.Messages) |-> MarshalMessage(r.Messages[i])] ]

NoBody == Marshal(ZeroRequest)

(* --------------------------- response bodies --------------------------- *)
\* texts a content block may carry
Texts == { <<>>, <<"B", "a", "n", "g", "k", "o", "k", "!">>, <<"H", "i">> }

\* the JSON value under the key "text" of a content element
JsonTexts ==
    { [kind |-> k, val |-> <<>>] : k \in {"absent", "null", "number"} }
    \cup { [kind |-> "string", val |-> t] : t \in Texts }
AbsentText == [kind |-> "absent", val |-> <<>>]

\* an element of the JSON array under "content"
JsonElems ==
    { [kind |-> k, text |-> AbsentText] : k \in {"null", "number"} }
    \cup { [kind |-> "object", text |-> t] : t \in JsonTexts }

\* the JSON value under the key "content" of the reply object
JsonContents ==
    { [kind |-> k, elems |-> <<>>] : k \in {"absent", "null", "string"} }
    \cup { [kind |-> "array", elems |-> es] : es \in SeqsUpTo(JsonElems, MaxContent) }
AbsentContent == [kind |-> "absent", elems |-> <<>>]

\* the bytes of result.Body: not JSON at all, or a JSON null, array or object
Bodies ==
    { [top |-> k, content |-> AbsentContent] : k \in {"malformed", "null", "array"} }
    \cup { [top |-> "object", content |-> c] : c \in JsonContents }
UnsetBody == [top |-> "unset", content |-> AbsentContent]

(* ----------------------------- json.Unmarshal -------------------------- *)
\* main.go:31-34  the zero ClaudeTextContent
ZeroTextContent == [Type |-> "", Text |-> <<>>]
\* main.go:43-51  the zero ClaudeResponse; only Content is ever read
ZeroResponse == [Content |-> <<>>]

\* decoding one array element into a ClaudeTextContent: a JSON null leaves
\* the zero value, a non-object and a non-string text are type errors that
\* leave the field at its zero value
DecodeElem(e) ==
    IF e.kind = "object"
    THEN [ Type |-> "text",
           Text |-> IF e.text.kind = "string" THEN e.text.val ELSE <<>> ]
    ELSE ZeroTextContent
ElemTypeError(e) ==
    \/ e.kind = "number"
    \/ e.kind = "object" /\ e.text.kind = "number"

\* json.Unmarshal(result.Body, &response): the error it returns and the
\* value it leaves in response
UnmarshalErr(b) ==
    IF b.top = "malformed" THEN ErrorOf(<<"invalid character">>)
    ELSE IF b.top = "array" THEN ErrorOf(<<"json: cannot unmarshal array">>)
    ELSE IF b.top = "object" /\ b.content.kind = "string"
         THEN ErrorOf(<<"json: cannot unmarshal string into content">>)
    ELSE IF b.top = "object" /\ b.content.kind = "array"
            /\ \E i \in 1..Len(b.content.elems) : ElemTypeError(b.content.elems[i])
         THEN ErrorOf(<<"json: cannot unmarshal number">>)
    ELSE NilErr
UnmarshalValue(b) ==
    IF b.top = "object" /\ b.content.kind = "array"
    THEN [Content |-> [i \in 1..Len(b.content.elems) |-> DecodeElem(b.content.elems[i])]]
    ELSE ZeroResponse

(* ------------------------------- output -------------------------------- *)
\* fmt.Println(s): the operand followed by a newline
Println(s) == Append(s, NL)

\* log.Fatalf(format, err): the standard logger's line, written to stderr
Fatalf(format, e) == <<"<date time>", format>> \o e.msg \o <<NL>>

\* the runtime's report of an out-of-range index, written to stderr
PanicIndex == <<"panic: runtime error: index out of range [0] with length 0", NL>>

\* main.go:119  the region-unavailable diagnostic (a constant line)
RegionDiagnostic == <<"<region unavailable literal>", NL>>
\* a slip: the format's %s verb and its argument left out
ModelDiagnosticNoId(id) ==
    <<"<model identifier literal>", "\"", "\"", "<could not resolve literal>", NL>>
\* main.go:121  the model-identifier diagnostic: literal, quoted %s, literal
ModelDiagnostic(id) ==
    <<"<model identifier literal>", "\"">> \o id \o <<"\"", "<could not resolve literal>", NL>>
\* a slip: the format's %v verb and its argument left out
GenericDiagnosticNoErr(e) == <<"<invoke failed literal>", NL>>
\* main.go:123  the generic diagnostic: literal, %v of the error
GenericDiagnostic(e) == <<"<invoke failed literal>">> \o e.msg \o <<NL>>

\* a slip: the two cases of the switch in the other order
handleInvokeErrorModelFirst(e, id) ==
    LET errMsg == e.msg IN
    IF Contains(errMsg, CouldNotResolve)
    THEN <<"<model identifier literal>", "\"">> \o id \o <<"\"", "<could not resolve literal>", NL>>
    ELSE IF Contains(errMsg, NoSuchHost) THEN <<"<region unavailable literal>", NL>>
    ELSE <<"<invoke failed literal>">> \o e.msg \o <<NL>>
\* main.go:115-125  what handleInvokeError writes to standard output
handleInvokeError(e, id) ==
    LET errMsg == e.msg IN
    IF Contains(errMsg, NoSuchHost) THEN RegionDiagnostic
    ELSE IF Contains(errMsg, CouldNotResolve) THEN ModelDiagnostic(id)
    ELSE GenericDiagnostic(e)

\* a slip: the last block instead of the first
LastText(resp) == resp.Content[Len(resp.Content)].Text
\* main.go:111  the operand of the print: the text of the block at index 0
\* (Go's index 0 is index 1 of a TLA+ sequence)
FirstText(resp) == resp.Content[1].Text

(* ------------------------------- state --------------------------------- *)
VARIABLES
    pc,        \* the statement of main about to run
    err,       \* main's variable err (lines 56, 86, 92)
    uerr,      \* the err of the if statement on line 106
    request,   \* main's variable request
    body,      \* main's variable body, the encoded request
    result,    \* result.Body, the bytes of the reply
    response,  \* main's variable response
    text,      \* the value of response.Content[0].Text once evaluated
    stdout,    \* the writes made to standard output, in order
    stderr,    \* the writes made to standard error, in order
    exitCode,  \* the exit status of the process, -1 while it runs
    steps,     \* the pipeline steps begun so far, in order
    calls      \* the number of InvokeModel calls made

vars == <<pc, err, uerr, request, body, result, response, text,
          stdout, stderr, exitCode, steps, calls>>

Running == -1

Init ==
    /\ pc = "loadConfig"
    /\ err = NilErr
    /\ uerr = NilErr
    /\ request = ZeroRequest
    /\ body = NoBody
    /\ result = UnsetBody
    /\ response = ZeroResponse
    /\ text = <<>>
    /\ stdout = <<>>
    /\ stderr = <<>>
    /\ exitCode = Running
    /\ steps = <<>>
    /\ calls = 0

(* ------------------------------ actions -------------------------------- *)
\* main.go:56  config.LoadDefaultConfig returns no error
LoadDefaultConfigOk ==
    /\ pc = "loadConfig"
    /\ err' = NilErr
    /\ pc' = "build"
    /\ UNCHANGED <<uerr, request, body, result, response, text,
                   stdout, stderr, exitCode, steps, calls>>

\* a slip: the configuration error logged without halting
LoadDefaultConfigFailContinue ==
    /\ pc = "loadConfig"
    /\ \E m \in ConfigErrMsgs :
          /\ err' = ErrorOf(m)
          /\ stderr' = Append(stderr, Fatalf("<config load failed literal>", ErrorOf(m)))
    /\ pc' = "build"
    /\ UNCHANGED <<uerr, request, body, result, response, text, stdout,
                   exitCode, steps, calls>>

\* main.go:56-59  config.LoadDefaultConfig fails: log.Fatalf
LoadDefaultConfigFail ==
    /\ pc = "loadConfig"
    /\ \E m \in ConfigErrMsgs :
          /\ err' = ErrorOf(m)
          /\ stderr' = Append(stderr, Fatalf("<config load failed literal>", ErrorOf(m)))
    /\ exitCode' = 1
    /\ pc' = "done"
    /\ UNCHANGED <<uerr, request, body, result, response, text, stdout, steps, calls>>

\* main.go:62-83  the client, the model id and the request struct
Build ==
    /\ pc = "build"
    /\ request' = BuildRequest
    /\ steps' = Append(steps, "build")
    /\ pc' = "serialize"
    /\ UNCHANGED <<err, uerr, body, result, response, text,
                   stdout, stderr, exitCode, calls>>

\* main.go:86  json.Marshal(request) succeeds
MarshalOk ==
    /\ pc = "serialize"
    /\ body' = Marshal(request)
    /\ err' = NilErr
    /\ steps' = Append(steps, "serialize")
    /\ pc' = "call"
    /\ UNCHANGED <<uerr, request, result, response, text,
                   stdout, stderr, exitCode, calls>>

\* main.go:86-89  json.Marshal(request) fails: log.Fatalf.  The branch is
\* modelled as main writes it, whatever the encoder does for this struct.
MarshalFail ==
    /\ pc = "serialize"
    /\ \E m \in MarshalErrMsgs :
          /\ err' = ErrorOf(m)
          /\ stderr' = Append(stderr, Fatalf("<request encode failed literal>", ErrorOf(m)))
    /\ steps' = Append(steps, "serialize")
    /\ exitCode' = 1
    /\ pc' = "done"
    /\ UNCHANGED <<uerr, request, body, result, response, text, stdout, calls>>

\* main.go:92-96  client.InvokeModel returns a reply
InvokeModelOk ==
    /\ pc = "call"
    /\ \E b \in Bodies : result' = b
    /\ err' = NilErr
    /\ calls' = calls + 1
    /\ steps' = Append(steps, "call")
    /\ pc' = "deserialize"
    /\ UNCHANGED <<uerr, request, body, response, text, stdout, stderr, exitCode>>

\* a slip: the call is tried once more after its first error
InvokeModelErrRetry ==
    /\ pc = "call"
    /\ \E m \in InvokeErrMsgs : err' = ErrorOf(m)
    /\ calls' = calls + 1
    /\ steps' = IF calls = 0 THEN steps ELSE Append(steps, "call")
    /\ pc' = IF calls = 0 THEN "call" ELSE "handleInvokeError"
    /\ UNCHANGED <<uerr, request, body, result, response, text,
                   stdout, stderr, exitCode>>
\* main.go:92-99  client.InvokeModel returns an error
InvokeModelErr ==
    /\ pc = "call"
    /\ \E m \in InvokeErrMsgs : err' = ErrorOf(m)
    /\ calls' = calls + 1
    /\ steps' = Append(steps, "call")
    /\ pc' = "handleInvokeError"
    /\ UNCHANGED <<uerr, request, body, result, response, text,
                   stdout, stderr, exitCode>>

\* main.go:100  handleInvokeError(err, modelID)
HandleInvokeError ==
    /\ pc = "handleInvokeError"
    /\ stdout' = Append(stdout, handleInvokeError(err, modelID))
    /\ pc' = "osExit"
    /\ UNCHANGED <<err, uerr, request, body, result, response, text,
                   stderr, exitCode, steps, calls>>

\* a slip: the exit after handleInvokeError left out
OsExitMissing ==
    /\ pc = "osExit"
    /\ pc' = "deserialize"
    /\ UNCHANGED <<err, uerr, request, body, result, response, text,
                   stdout, stderr, exitCode, steps, calls>>
\* main.go:101  os.Exit(1)
OsExit ==
    /\ pc = "osExit"
    /\ exitCode' = 1
    /\ pc' = "done"
    /\ UNCHANGED <<err, uerr, request, body, result, response, text,
                   stdout, stderr, steps, calls>>

\* main.go:105-106  json.Unmarshal succeeds
UnmarshalOk ==
    /\ pc = "deserialize"
    /\ UnmarshalErr(result).isNil
    /\ uerr' = NilErr
    /\ response' = UnmarshalValue(result)
    /\ steps' = Append(steps, "deserialize")
    /\ pc' = "extract"
    /\ UNCHANGED <<err, request, body, result, text, stdout, stderr, exitCode, calls>>

\* a slip: the decode error reported with fmt.Printf and os.Exit(1)
UnmarshalFailToStdout ==
    /\ pc = "deserialize"
    /\ ~UnmarshalErr(result).isNil
    /\ uerr' = UnmarshalErr(result)
    /\ response' = UnmarshalValue(result)
    /\ stdout' = Append(stdout, <<"<response decode failed literal>">> \o UnmarshalErr(result).msg \o <<NL>>)
    /\ steps' = Append(steps, "deserialize")
    /\ exitCode' = 1
    /\ pc' = "done"
    /\ UNCHANGED <<err, request, body, result, text, stderr, calls>>

\* a slip: the decode error dropped and the partly decoded response used
UnmarshalFailContinue ==
    /\ pc = "deserialize"
    /\ ~UnmarshalErr(result).isNil
    /\ uerr' = UnmarshalErr(result)
    /\ response' = UnmarshalValue(result)
    /\ steps' = Append(steps, "deserialize")
    /\ pc' = "extract"
    /\ UNCHANGED <<err, request, body, result, text, stdout, stderr, exitCode, calls>>

\* main.go:106-108  json.Unmarshal fails: log.Fatalf
UnmarshalFail ==
    /\ pc = "deserialize"
    /\ ~UnmarshalErr(result).isNil
    /\ uerr' = UnmarshalErr(result)
    /\ response' = UnmarshalValue(result)
    /\ stderr' = Append(stderr, Fatalf("<response decode failed literal>", UnmarshalErr(result)))
    /\ steps' = Append(steps, "deserialize")
    /\ exitCode' = 1
    /\ pc' = "done"
    /\ UNCHANGED <<err, request, body, result, text, stdout, calls>>

\* main.go:111  response.Content[0].Text with index 0 in range
Extract ==
    /\ pc = "extract"
    /\ Len(response.Content) >= 1
    /\ text' = FirstText(response)
    /\ steps' = Append(steps, "extract")
    /\ pc' = "print"
    /\ UNCHANGED <<err, uerr, request, body, result, response,
                   stdout, stderr, exitCode, calls>>

\* a change: an empty list guarded, an empty text printed
ExtractGuarded ==
    /\ pc = "extract"
    /\ Len(response.Content) = 0
    /\ text' = <<>>
    /\ steps' = Append(steps, "extract")
    /\ pc' = "print"
    /\ UNCHANGED <<err, uerr, request, body, result, response,
                   stdout, stderr, exitCode, calls>>

\* main.go:111  response.Content[0] with an empty list: the runtime panics,
\* reports on stderr and exits with status 2
ExtractPanic ==
    /\ pc = "extract"
    /\ Len(response.Content) = 0
    /\ stderr' = Append(stderr, PanicIndex)
    /\ steps' = Append(steps, "extract")
    /\ exitCode' = 2
    /\ pc' = "done"
    /\ UNCHANGED <<err, uerr, request, body, result, response, text, stdout, calls>>

\* main.go:111  fmt.Println of the extracted text
PrintText ==
    /\ pc = "print"
    /\ stdout' = Append(stdout, Println(text))
    /\ steps' = Append(steps, "print")
    /\ pc' = "return"
    /\ UNCHANGED <<err, uerr, request, body, result, response, text,
                   stderr, exitCode, calls>>

\* main.go:112  main returns: exit status 0
Return ==
    /\ pc = "return"
    /\ exitCode' = 0
    /\ pc' = "done"
    /\ UNCHANGED <<err, uerr, request, body, result, response, text,
                   stdout, stderr, steps, calls>>

Next ==
    \/ LoadDefaultConfigOk
    \/ LoadDefaultConfigFail
    \/ Build
    \/ MarshalOk
    \/ MarshalFail
    \/ InvokeModelOk
    \/ InvokeModelErr
    \/ HandleInvokeError
    \/ OsExit
    \/ UnmarshalOk
    \/ UnmarshalFail
    \/ Extract
    \/ ExtractPanic
    \/ PrintText
    \/ Return

Spec == Init /\ [][Next]_vars

\* the process is scheduled until it exits, and the remote call returns
LiveSpec == Spec /\ WF_vars(Next)

TypeOK ==
    /\ pc \in {"loadConfig", "build", "serialize", "call", "handleInvokeError",
               "osExit", "deserialize", "extract", "print", "return", "done"}
    /\ exitCode \in {Running, 0, 1, 2}
    /\ calls \in 0..1

(* ------------------------- shared vocabulary --------------------------- *)
\* the order of the pipeline steps
Pipeline == <<"build", "serialize", "call", "deserialize", "extract", "print">>

IsPrefix(s, t) == Len(s) <= Len(t) /\ SubSeq(t, 1, Len(s)) = s

\* the remote call was made and returned an error / a reply
CallFailed == calls = 1 /\ steps = SubSeq(Pipeline, 1, 3) /\ ~err.isNil
CallSucceeded == calls = 1 /\ result.top # "unset" /\ err.isNil

\* handleInvokeError has returned
Classified == CallFailed /\ pc \in {"osExit", "done"}

IsRegionDiagnostic(d) == d[1] = "<region unavailable literal>"
IsModelDiagnostic(d) == d[1] = "<model identifier literal>"
IsGenericDiagnostic(d) == d[1] = "<invoke failed literal>"
IsLogLine(d) == d[1] = "<date time>"

\* some step has failed
Failed == ~err.isNil \/ ~uerr.isNil

(* ------------------------------- C1 ------------------------------------ *)
\* C1: when the remote call succeeds and the body decodes to a response with
\* at least one content block, nothing is on standard output until the print
\* and from then on standard output holds one write, the text of the block at
\* index 0 followed by the line terminator; no other block's text is written.
C1_PrintsFirstBlockOnly ==
    ( /\ CallSucceeded
      /\ UnmarshalErr(result).isNil
      /\ result.top = "object" /\ result.content.kind = "array"
      /\ Len(result.content.elems) >= 1 )
    => LET first == result.content.elems[1]
           want == IF first.kind = "object" /\ first.text.kind = "string"
                   THEN first.text.val ELSE <<>>
       IN  /\ pc \in {"deserialize", "extract", "print"} => stdout = <<>>
           /\ pc \in {"return", "done"} => stdout = << want \o <<NL>> >>
           /\ pc \in {"deserialize", "extract", "print", "return", "done"}

C1_Witness ==
    /\ pc = "done" /\ exitCode = 0
    /\ Len(response.Content) = 2
    /\ response.Content[1].Text = <<"H", "i">>
    /\ response.Content[2].Text = <<"B", "a", "n", "g", "k", "o", "k", "!">>
    /\ stdout = << <<"H", "i", NL>> >>

(* ------------------------------- C2 ------------------------------------ *)
\* C2: once handleInvokeError has run on an error whose text contains
\* "no such host", the one write on standard output is the region-unavailable
\* diagnostic, whatever else the text contains.
C2_NoSuchHostSelectsRegion ==
    (Classified /\ Contains(err.msg, NoSuchHost))
    => /\ Len(stdout) = 1
       /\ IsRegionDiagnostic(stdout[1])
       /\ stdout[1] = RegionDiagnostic

C2_Witness ==
    /\ Classified
    /\ err.msg = CouldNotResolve \o NoSuchHost
    /\ stdout = <<RegionDiagnostic>>

(* ------------------------------- C3 ------------------------------------ *)
\* C3 as stated: every error whose text contains "Could not resolve the
\* foundation model" yields a diagnostic that embeds the model identifier.
C3_Original ==
    (Classified /\ Contains(err.msg, CouldNotResolve))
    => /\ Len(stdout) = 1
       /\ Contains(stdout[1], modelID)

\* C3 amended: every error whose text contains "Could not resolve the
\* foundation model" and does not contain "no such host" yields the
\* model-identifier diagnostic, which embeds the model identifier verbatim
\* between double quotes.
C3_ModelDiagnosticEmbedsId ==
    (Classified /\ Contains(err.msg, CouldNotResolve) /\ ~Contains(err.msg, NoSuchHost))
    => /\ Len(stdout) = 1
       /\ IsModelDiagnostic(stdout[1])
       /\ Contains(stdout[1], <<"\"">> \o modelID \o <<"\"">>)

C3_Witness ==
    /\ Classified
    /\ err.msg = <<"d", "i", "a", "l", " ", "t", "c", "p", ":", " ">> \o CouldNotResolve
    /\ Len(stdout) = 1
    /\ Contains(stdout[1], modelID)

(* ------------------------------- C4 ------------------------------------ *)
\* C4: an error whose text contains neither known substring yields the
\* generic diagnostic, which carries the error text; an error whose text
\* contains either known substring never yields the generic diagnostic.
C4_GenericFallback ==
    Classified
    => /\ Len(stdout) = 1
       /\ IF Contains(err.msg, NoSuchHost) \/ Contains(err.msg, CouldNotResolve)
          THEN ~IsGenericDiagnostic(stdout[1])
          ELSE /\ IsGenericDiagnostic(stdout[1])
               /\ stdout[1] = <<"<invoke failed literal>">> \o err.msg \o <<NL>>

C4_Witness ==
    /\ Classified
    /\ err.msg = <<"n", "o", " ", "s", "u", "c", "h", " ">>
                    \o <<"d", "i", "a", "l", " ", "t", "c", "p", ":", " ">>
                    \o <<"h", "o", "s", "t">>
    /\ IsGenericDiagnostic(stdout[1])
    /\ Contains(stdout[1], err.msg)

(* ------------------------------- C5 ------------------------------------ *)
\* C5: after the remote call has returned an error the run is in
\* handleInvokeError, at os.Exit or finished; nothing is decoded and no
\* response text is printed; exactly one classified diagnostic is on standard
\* output from the moment handleInvokeError returns, hence before the exit;
\* the exit status is 1; and the run does finish.
C5_State ==
    CallFailed
    => /\ pc \in {"handleInvokeError", "osExit", "done"}
       /\ uerr.isNil /\ response = ZeroResponse /\ text = <<>>
       /\ stderr = <<>>
       /\ pc = "handleInvokeError" => stdout = <<>> /\ exitCode = Running
       /\ pc \in {"osExit", "done"}
            => /\ Len(stdout) = 1
               /\ \/ IsRegionDiagnostic(stdout[1])
                  \/ IsModelDiagnostic(stdout[1])
                  \/ IsGenericDiagnostic(stdout[1])
       /\ pc = "osExit" => exitCode = Running
       /\ pc = "done" => exitCode = 1

C5_CallErrorDiagnosedThenExit1 ==
    /\ []C5_State
    /\ CallFailed ~> (pc = "done" /\ exitCode = 1 /\ Len(stdout) = 1)

C5_Witness ==
    /\ CallFailed
    /\ pc = "done" /\ exitCode = 1
    /\ Len(stdout) = 1 /\ IsModelDiagnostic(stdout[1])

(* ------------------------------- C6 ------------------------------------ *)
\* C6 as stated: every finished run has written exactly one item to standard
\* output and nothing to standard error.
C6_Original ==
    pc = "done" => Len(stdout) = 1 /\ stderr = <<>>

\* C6 amended: a run never writes more than one item to standard output.
\* A finished run has written exactly one item in all: on success the
\* response text, to standard output; on remote-call failure one classified
\* diagnostic, to standard output; on configuration-load, request-encode and
\* response-decode failure one log line, to standard error; on an empty
\* content list the runtime's panic report, to standard error.
C6_OneWriteByOutcome ==
    /\ Len(stdout) <= 1
    /\ pc = "done" =>
         /\ Len(stdout) + Len(stderr) = 1
         /\ exitCode = 0 => stdout = << text \o <<NL>> >>
         /\ CallFailed => Len(stdout) = 1 /\ ~IsLogLine(stdout[1])
         /\ (exitCode = 1 /\ ~CallFailed)
              => /\ Len(stderr) = 1 /\ IsLogLine(stderr[1])
                 /\ Contains(stderr[1], IF uerr.isNil THEN err.msg ELSE uerr.msg)
         /\ exitCode = 2 => stderr = <<PanicIndex>>

C6_Witness ==
    /\ pc = "done" /\ exitCode = 1
    /\ ~uerr.isNil
    /\ stdout = <<>> /\ Len(stderr) = 1

(* ------------------------------- C7 ------------------------------------ *)
\* C7: InvokeModel is called at most once; once a step has failed no further
\* pipeline step begins, no call is made and control only moves to the exit;
\* and a run in which a step has failed finishes.
C7_NoStepAfterFailure ==
    Failed => /\ steps' = steps
              /\ calls' = calls
              /\ response' = response
              /\ pc' \in {"osExit", "done"}

C7_NoRetry ==
    /\ [](calls <= 1)
    /\ [][C7_NoStepAfterFailure]_vars
    /\ Failed ~> (pc = "done" /\ exitCode # Running)

C7_Witness ==
    /\ pc = "done"
    /\ ~uerr.isNil
    /\ calls = 1
    /\ steps = SubSeq(Pipeline, 1, 4)

(* ------------------------------- C8 ------------------------------------ *)
\* C8: the steps begun are always an initial part of build, serialize, call,
\* deserialize, extract, print; a step begins only while no step has failed
\* and the process runs; a finished run takes no further step; a run
\* finishes with status 0 exactly when all six steps ran; and every run
\* finishes.
C8_StepBegins ==
    \/ steps' = steps
    \/ /\ Len(steps) < Len(Pipeline)
       /\ steps' = Append(steps, Pipeline[Len(steps) + 1])
       /\ ~Failed
       /\ exitCode = Running

C8_LinearPipeline ==
    /\ [](IsPrefix(steps, Pipeline))
    /\ [][C8_StepBegins]_vars
    /\ [][pc # "done"]_vars
    /\ [](pc = "done" <=> exitCode # Running)
    /\ [](pc = "done" => (exitCode = 0 <=> steps = Pipeline))
    /\ <>(pc = "done")

C8_Witness ==
    /\ pc = "done"
    /\ steps = Pipeline
    /\ exitCode = 0

(* ------------------------------- C9 ------------------------------------ *)
\* C9: when the remote call succeeds and the body decodes without error to a
\* response with an empty content list, the run never reaches the print:
\* standard output stays empty, the run does not finish with status 0, and it
\* finishes with the runtime's panic (status 2, report on standard error).
C9_EmptyContentAborts ==
    ( /\ CallSucceeded
      /\ UnmarshalErr(result).isNil
      /\ Len(UnmarshalValue(result).Content) = 0 )
    => /\ stdout = <<>>
       /\ pc \in {"deserialize", "extract", "done"}
       /\ exitCode # 0
       /\ "print" \notin {steps[i] : i \in 1..Len(steps)}
       /\ pc = "done" => exitCode = 2 /\ stderr = <<PanicIndex>>

C9_Witness ==
    /\ pc = "done"
    /\ result.top = "object" /\ result.content.kind = "array"
    /\ result.content.elems = <<>>
    /\ uerr.isNil
    /\ exitCode = 2

(* ------------------------------- C10 ----------------------------------- *)
\* C10: a finished run has status 0 exactly when it printed a response text,
\* which is exactly when no call returned an error, the decode returned no
\* error and the decoded content list is non-empty; every other finished run
\* has status 1 or 2 and an empty standard output or a diagnostic on it.
C10_ExitZeroIffPrinted ==
    pc = "done" =>
        LET printed == /\ steps = Pipeline
                       /\ Len(response.Content) >= 1
                       /\ stdout = << response.Content[1].Text \o <<NL>> >>
            allOk   == /\ err.isNil /\ uerr.isNil
                       /\ stderr = <<>>
                       /\ CallSucceeded
                       /\ UnmarshalErr(result).isNil
                       /\ Len(UnmarshalValue(result).Content) >= 1
        IN  /\ exitCode = 0 <=> printed
            /\ printed <=> allOk
            /\ ~allOk => /\ exitCode \in {1, 2}
                         /\ "print" \notin {steps[i] : i \in 1..Len(steps)}
                         /\ stdout = <<>> \/ (Len(stdout) = 1 /\ CallFailed)

C10_Witness ==
    /\ pc = "done"
    /\ exitCode = 0
    /\ stdout = << <<"B", "a", "n", "g", "k", "o", "k", "!", NL>> >>
====
